---- MODULE Spec2Model ----
(***************************************************************************)
(* ServeSense firmware: the classifier variant                             *)
(* (firmware/serve_sense_classifier/src/main.cpp) and the logger variant   *)
(* (firmware/serve_sense_logger/src/main.cpp).                             *)
(*                                                                         *)
(* Numbers.  Sensor readings and the input scale are floats whose values   *)
(* are whole numbers of one common unit, a power of two, and are written   *)
(* as those whole numbers; value / input_scale is their quotient in single *)
(* precision, and the int32_t it is cast to has 32 bits.  Where the        *)
(* behaviour of a statement is undefined, every value its result variable  *)
(* can hold is an outcome.  Probabilities and the output scale are counted *)
(* in units of                                                             *)
(* 1/PUnit.  Pin levels are booleans, as Arduino's LOW (0) and HIGH (1)    *)
(* are when stored in a bool.                                              *)
(***************************************************************************)
EXTENDS Integers, Sequences, FiniteSets, TLC

LOW  == FALSE
HIGH == TRUE

\* ------------------------------------------------------------------------
\* Classifier: model configuration (main.cpp 36-45)
\* ------------------------------------------------------------------------
kSequenceLength == 160
kNumFeatures == 6
kNumClasses == 4

labels == [i \in 0..(kNumClasses - 1) |->
             CASE i = 0 -> "good-serve"
               [] i = 1 -> "jerky-motion"
               [] i = 2 -> "lacks-pronation"
               [] i = 3 -> "short-swing"]

\* One probability unit is 1/PUnit: an output scale of 1/256 is 100 units,
\* an output scale of 0.01 is 256 units.
PUnit == 256 * 100

\* const float kMinConfidence = 0.35f
kMinConfidence == (35 * PUnit) \div 100

\* The level each LED write is commented with in loop(): line 178 writes LOW
\* to "turn LED on", line 188 writes HIGH to "turn LED off".
LED_ON  == LOW
LED_OFF == HIGH

\* ------------------------------------------------------------------------
\* Bounds of the model
\* ------------------------------------------------------------------------
\* Recordings the switch may start in one run of the classifier.
MaxStarts == 2

\* ------------------------------------------------------------------------
\* Arithmetic helpers
\* ------------------------------------------------------------------------
Min(a, b) == IF a < b THEN a ELSE b

Abs(a) == IF a < 0 THEN -a ELSE a

RECURSIVE Pow2(_)
Pow2(n) == IF n = 0 THEN 1 ELSE 2 * Pow2(n - 1)

\* A float has a significand of 24 bits: a full significand is at least
\* 2^23 and below 2^24.
SignificandBits == 24
SignificandTop == Pow2(SignificandBits - 1)
SignificandLimit == Pow2(SignificandBits)

\* The binary digits of a / b by long division: m holds the digits found so
\* far, r is the remainder (r < b) and e counts the digits after the point.
\* The division stops when it comes out even or the significand is full, and
\* what is left is rounded to nearest, a tie going to the even significand.
\* The result [m, e] stands for the float m / 2^e.
RECURSIVE FloatDigits(_, _, _, _)
FloatDigits(m, r, b, e) ==
  IF r = 0 \/ m >= SignificandTop
  THEN [m |-> m + (IF 2 * r > b \/ (2 * r = b /\ m % 2 = 1) THEN 1 ELSE 0),
        e |-> e]
  ELSE FloatDigits(2 * m + (IF 2 * r >= b THEN 1 ELSE 0), (2 * r) % b, b, e + 1)

\* The least k for which a / (b * 2^k) has at most 24 digits before the
\* point.
RECURSIVE WholeShift(_, _, _)
WholeShift(a, b, k) ==
  IF a \div (b * Pow2(k)) < SignificandLimit THEN k
  ELSE WholeShift(a, b, k + 1)

\* value / input_scale (line 256) for a >= 0 and b > 0: the float nearest to
\* the quotient, as [m, e] standing for m / 2^e (e < 0 for a quotient of more
\* than 24 digits, which is rounded to a multiple of 2^-e).
FloatQuotient(a, b) ==
  IF a \div b < SignificandLimit THEN FloatDigits(a \div b, a % b, b, 0)
  ELSE LET k == WholeShift(a, b, 1)
           c == b * Pow2(k)
           q == FloatDigits(a \div c, a % c, c, 0)
       IN [m |-> q.m, e |-> -k]

\* roundf of the non-negative float m / 2^e below 2^31: the nearest integer,
\* a half going away from zero.  A float with more than 25 digits after the
\* point is below 1/2.
roundf(q) ==
  IF q.e = 0 THEN q.m
  ELSE IF q.e < 0 THEN q.m * Pow2(-q.e)
  ELSE IF q.e > SignificandBits + 1 THEN 0
  ELSE LET p == Pow2(q.e)
       IN (q.m \div p) + (IF 2 * (q.m % p) >= p THEN 1 ELSE 0)

\* int32_t
INT32_MAX == 2147483647
INT32_MIN == -INT32_MAX - 1
Int32Bits == 31

\* int8_t
Int8 == (-128)..127

\* Whether the non-negative float m / 2^e is 2^31 or more, and whether it is
\* 2^31.
AtLeastInt32Limit(q) ==
  q.m > 0 /\ q.e < 0 /\ (-q.e > Int32Bits \/ q.m >= Pow2(Int32Bits + q.e))

IsInt32Limit(q) ==
  q.e < 0 /\ -q.e <= Int32Bits /\ q.m = Pow2(Int32Bits + q.e)

\* ------------------------------------------------------------------------
\* Quantization (classifyServe, lines 255-262)
\* ------------------------------------------------------------------------
ClampInt8(q) == IF q < -128 THEN -128 ELSE IF q > 127 THEN 127 ELSE q

\* Whether the int32_t sum n + input_zp of line 256 can be represented.
SumFits(n, input_zp) ==
  IF input_zp < 0 THEN n >= INT32_MIN - input_zp ELSE n <= INT32_MAX - input_zp

\* Lines 255-262 for the reading value * 2^shift (shift >= 0) and
\* input_scale > 0: the values the statements can leave in the tensor
\* element.  value / input_scale is the float quotient, and roundf of it is
\* cast to int32_t: the cast is undefined when the rounded quotient is
\* outside int32_t, that is 2^31 or more, or below -2^31; the sum with
\* input_zp is undefined when it overflows int32_t.  Both functions being
\* odd, the sign is set aside.
QuantizeScaled(value, shift, input_scale, input_zp) ==
  LET q == FloatQuotient(Abs(value), input_scale)
      f == [m |-> q.m, e |-> q.e - shift]
      cast_defined == ~AtLeastInt32Limit(f) \/ (value < 0 /\ IsInt32Limit(f))
      n == IF AtLeastInt32Limit(f) THEN INT32_MIN
           ELSE IF value < 0 THEN -roundf(f) ELSE roundf(f)
  IN IF cast_defined /\ SumFits(n, input_zp)
     THEN {ClampInt8(n + input_zp)}
     ELSE Int8

\* Lines 255-262 for a reading of `value` units.
Quantize(value, input_scale, input_zp) ==
  QuantizeScaled(value, 0, input_scale, input_zp)

\* A fill that never pads: it reads every row from the buffer.
PaddedValueStale(buf, actual_samples, i, j) == buf[i][j]

\* The padded / truncated row i of the window: the stored sample below
\* actual_samples, zeros from there on.
PaddedValue(buf, actual_samples, i, j) ==
  IF i < actual_samples THEN buf[i][j] ELSE 0

\* The tensors lines 249-264 can leave in model_input->data.int8, indexed
\* i * kNumFeatures + j: one tensor where every element has one outcome, and
\* otherwise every tensor made of outcomes of its elements.
FillInput(buf, count, input_scale, input_zp) ==
  LET actual_samples == Min(count, kSequenceLength)
      elements == 0..(kSequenceLength * kNumFeatures - 1)
      outcomes ==
        [k \in elements |->
           Quantize(PaddedValue(buf, actual_samples, k \div kNumFeatures,
                                k % kNumFeatures),
                    input_scale, input_zp)]
  IN IF \A k \in elements : Cardinality(outcomes[k]) = 1
     THEN {[k \in elements |-> CHOOSE x \in outcomes[k] : TRUE]}
     ELSE {t \in [elements -> Int8] : \A k \in elements : t[k] \in outcomes[k]}

\* ------------------------------------------------------------------------
\* Decision (classifyServe, lines 272-300)
\* ------------------------------------------------------------------------
\* prob = (q - zero_point) * scale, in probability units.
Dequantize(q, output_scale, output_zp) == (q - output_zp) * output_scale

Probabilities(out, output_scale, output_zp) ==
  [i \in 0..(kNumClasses - 1) |-> Dequantize(out[i], output_scale, output_zp)]

\* The loop of lines 281-296 from class i on, entered with the running
\* <<best_idx, max_prob>>.
RECURSIVE ArgmaxFrom(_, _, _, _)
ArgmaxFrom(probs, i, best_idx, max_prob) ==
  IF i >= kNumClasses THEN [best_idx |-> best_idx, max_prob |-> max_prob]
  ELSE IF probs[i] > max_prob
       THEN ArgmaxFrom(probs, i + 1, i, probs[i])
       ELSE ArgmaxFrom(probs, i + 1, best_idx, max_prob)

\* int best_idx = 0; float max_prob = -1.0f;
Argmax(probs) == ArgmaxFrom(probs, 0, 0, -PUnit)

\* A threshold that excludes the boundary.
IsConfidentStrict(max_prob) == max_prob > kMinConfidence

IsConfident(max_prob) == max_prob >= kMinConfidence

\* printf's "%.1f" of prob * 100: the percentage in tenths, the exact value
\* rounded to the nearest tenth, a half to the even neighbour.
FormatPercent(prob) ==
  LET n == Abs(prob) * 1000
      q == n \div PUnit
      r == n % PUnit
      m == IF 2 * r > PUnit \/ (2 * r = PUnit /\ q % 2 = 1) THEN q + 1 ELSE q
  IN IF prob < 0 THEN -m ELSE m

\* result_msg: "<label or UNKNOWN>:p0,p1,p2,p3" (lines 302-328).
ResultMsg(probs, best_idx, is_confident) ==
  [label |-> IF is_confident THEN labels[best_idx] ELSE "UNKNOWN",
   fields |-> [i \in 0..(kNumClasses - 1) |-> FormatPercent(probs[i])]]

\* ------------------------------------------------------------------------
\* Haptic feedback (lines 352-414): each function is the sequence of pin
\* writes and delays it executes.
\* ------------------------------------------------------------------------
DigitalWrite(pin, level) == [op |-> "write", pin |-> pin, level |-> level, ms |-> 0]
Delay(ms) == [op |-> "delay", pin |-> "none", level |-> LOW, ms |-> ms]

\* One on/off pulse as every pattern writes it.
PulseOnOff(on_ms, off_ms) ==
  << DigitalWrite("motor", HIGH), DigitalWrite("led", HIGH), Delay(on_ms),
     DigitalWrite("motor", LOW), DigitalWrite("led", LOW), Delay(off_ms) >>

RECURSIVE Repeat(_, _)
Repeat(n, body) == IF n <= 0 THEN << >> ELSE body \o Repeat(n - 1, body)

hapticStartup ==
  << DigitalWrite("motor", HIGH), DigitalWrite("led", HIGH), Delay(1000),
     DigitalWrite("motor", LOW), DigitalWrite("led", LOW) >>

hapticGoodServe == Repeat(3, PulseOnOff(100, 100))

hapticJerkyMotion == Repeat(2, PulseOnOff(400, 200))

\* A warning pattern whose long pulse comes last.
hapticLacksPronationReordered ==
  Repeat(2, PulseOnOff(100, 100)) \o PulseOnOff(500, 150)

hapticLacksPronation == PulseOnOff(500, 150) \o Repeat(2, PulseOnOff(100, 100))

hapticShortSwing == Repeat(4, PulseOnOff(80, 80))

\* A dispatch that ignores the confidence.
HapticForAnyResult(is_confident, best_idx) ==
  CASE best_idx = 0 -> hapticGoodServe
    [] best_idx = 1 -> hapticJerkyMotion
    [] best_idx = 2 -> hapticLacksPronation
    [] best_idx = 3 -> hapticShortSwing
    [] OTHER -> << >>

\* The dispatch of lines 334-344.
HapticFor(is_confident, best_idx) ==
  IF is_confident
  THEN CASE best_idx = 0 -> hapticGoodServe
         [] best_idx = 1 -> hapticJerkyMotion
         [] best_idx = 2 -> hapticLacksPronation
         [] best_idx = 3 -> hapticShortSwing
         [] OTHER -> << >>
  ELSE << >>

\* The level of `pin` after the operations `ops`, starting from `level`.
RECURSIVE PinAfter(_, _, _)
PinAfter(ops, pin, level) ==
  IF ops = << >> THEN level
  ELSE PinAfter(Tail(ops), pin,
                IF Head(ops).op = "write" /\ Head(ops).pin = pin
                THEN Head(ops).level ELSE level)

\* The timed steps of `ops`: one (motor level, duration) per delay, the motor
\* level being the one in force during the delay.
RECURSIVE PulsesFrom(_, _)
PulsesFrom(ops, motor_level) ==
  IF ops = << >> THEN << >>
  ELSE LET h == Head(ops)
       IN IF h.op = "delay"
          THEN << [on |-> motor_level, ms |-> h.ms] >> \o PulsesFrom(Tail(ops), motor_level)
          ELSE PulsesFrom(Tail(ops), IF h.pin = "motor" THEN h.level ELSE motor_level)

RECURSIVE TotalDelay(_)
TotalDelay(ops) ==
  IF ops = << >> THEN 0
  ELSE (IF Head(ops).op = "delay" THEN Head(ops).ms ELSE 0) + TotalDelay(Tail(ops))

\* ------------------------------------------------------------------------
\* classifyServe (lines 230-350)
\* ------------------------------------------------------------------------
\* Lines 272-344: the decision on the output tensor `out`, the result message
\* and the feedback pattern.
Decide(out, output_scale, output_zp) ==
  LET probs == Probabilities(out, output_scale, output_zp)
      am == Argmax(probs)
      is_confident == IsConfident(am.max_prob)
  IN [probabilities |-> probs,
      best_idx |-> am.best_idx,
      max_prob |-> am.max_prob,
      is_confident |-> is_confident,
      result_msg |-> ResultMsg(probs, am.best_idx, is_confident),
      haptic |-> HapticFor(is_confident, am.best_idx)]

\* A classifyServe that does not test Invoke's status.
ClassifyServeUnchecked(buf, count, params, invoke_ok, out) ==
  LET d == Decide(out, params.output_scale, params.output_zp)
  IN { [tensor |-> tensor,
        result |-> << d.result_msg >>,
        ops |-> d.haptic \o << DigitalWrite("led", HIGH) >>] :
       tensor \in FillInput(buf, count, params.input_scale, params.input_zp) }

\* What one call of classifyServe can do: the tensor handed to Invoke, the
\* messages written to the result characteristic and the pin operations.
\* A failed Invoke returns at line 269, before any of the latter.
ClassifyServe(buf, count, params, invoke_ok, out) ==
  LET d == Decide(out, params.output_scale, params.output_zp)
  IN { IF ~invoke_ok
       THEN [tensor |-> tensor, result |-> << >>, ops |-> << >>]
       ELSE [tensor |-> tensor,
             result |-> << d.result_msg >>,
             ops |-> d.haptic \o << DigitalWrite("led", HIGH) >>] :
       tensor \in FillInput(buf, count, params.input_scale, params.input_zp) }

\* A call of loop() that does not call classifyServe.
NotClassified == [tensor |-> << >>, result |-> << >>, ops |-> << >>]

\* ------------------------------------------------------------------------
\* Classifier: state
\* ------------------------------------------------------------------------
VARIABLES
  c_pc,               \* "boot" before setup(), "run" in loop(), "halt" in while(1)
  imu_buffer,         \* float imu_buffer[kSequenceLength][kNumFeatures]
  sample_count,
  is_recording,
  last_switch_state,
  model_params,       \* model_input->params and model_output->params
  led,                \* level of LED_BUILTIN
  motor,              \* level of PIN_VIBRATION_MOTOR
  \* the environment
  profile,            \* the motion the sensor sees during the current recording
  starts,             \* recordings started so far
  \* what the last call of setup() or loop() did
  pin_ops,            \* its pin writes and the delays of its feedback pattern, in order
  switch_writes,      \* bytes written to switchCharacteristic
  result_writes,      \* messages written to resultCharacteristic
  invoked,            \* input tensors handed to interpreter->Invoke()
  invoke_out,         \* output tensors a successful Invoke() left
  loop_delays,        \* loop()'s own delay() calls (lines 224, 227), in ms
  sampled             \* whether it stored a sample

cvars == << c_pc, imu_buffer, sample_count, is_recording, last_switch_state,
            model_params, led, motor, profile, starts,
            pin_ops, switch_writes, result_writes, invoked, invoke_out,
            loop_delays, sampled >>

\* The decision of classifyServe taken alone
VARIABLES
  d_in,               \* an output tensor with the output scale and zero point
  d_out               \* << >> before the decision, << Decide(...) >> after it

dvars == << d_in, d_out >>

\* The logger
VARIABLES
  l_pc,               \* where setup() / loop() stands
  l_todo,             \* the accesses to shared variables that the stretch of
                      \* code setup() / loop() is in has still to make
  captureEnabled,     \* volatile bool
  serveMarker,        \* volatile bool
  sessionId,          \* uint16_t
  sampleSerial,       \* uint32_t
  btn_last,           \* onButtonFalling's static last
  lastSampleMs,
  lastSwitchState,
  lastSwitchCheckMs,
  \* loop()'s locals, zero while out of scope
  now,
  pkt,                \* the ServePacket under construction
  serial_reg,         \* the value loop() loaded for sessionId++ / sampleSerial++
  status_led,
  \* the command callback (NimBLE host task) and the button interrupt
  w_todo,             \* the accesses a call of onWrite has still to make,
                      \* {} between calls
  w_reg,              \* the value of sessionId onWrite loaded for sessionId++
  b_todo,             \* the accesses a call of onButtonFalling has still to
                      \* make, {} between calls
  b_reg,              \* the value of captureEnabled the handler loaded for the
                      \* toggle, as 1 / 0
  b_sid,              \* the value of sessionId it loaded for sessionId++
  \* the environment
  millis,             \* the clock millis() reads
  delay_left,         \* ms the delay() that setup() is in still has to wait
  \* observations
  notified,           \* packets the last finished loop() handed to notify()
  accepted,           \* samples accepted since the last start of recording
  built               \* packets loop() has built so far, counted by the session
                      \* id they carry: a function from those ids to counts

\* The variables shared by loop(), onWrite and onButtonFalling
shared == << captureEnabled, serveMarker, sessionId, sampleSerial >>

\* The statics and locals of setup() / loop()
loop_locals == << lastSampleMs, lastSwitchState, lastSwitchCheckMs, now, pkt,
                  serial_reg, status_led >>

write_locals == << w_todo, w_reg >>

button_locals == << b_todo, b_reg, b_sid, btn_last >>

clock == << millis, delay_left >>

observed == << notified, accepted, built >>

lvars == << l_pc, l_todo, shared, loop_locals, write_locals, button_locals,
            clock, observed >>

\* The stopwatch of the user of the classifier
VARIABLES
  hold_ms             \* ms from the call of loop() that saw the switch turned ON
                      \* to the start of the next call, while the recording lasts

tvars == << hold_ms >>

\* The quantization of classifyServe taken alone
VARIABLES
  q_in,               \* a value (with its shift), the input scale and zero point
  q_out               \* << >> before the quantization, << q >> after it, q
                      \* being what it left

qvars == << q_in, q_out >>

vars == << cvars, dvars, lvars, tvars, qvars >>

\* What an action of one program leaves alone: the other program's state.
ClassifierOnly == UNCHANGED << dvars, lvars, tvars, qvars >>
DecideOnly == UNCHANGED << cvars, lvars, tvars, qvars >>
LoggerOnly == UNCHANGED << cvars, dvars, tvars, qvars >>
QuantizeOnly == UNCHANGED << cvars, dvars, lvars, tvars >>

\* The quantization parameters a loaded model may carry: an input scale of 4
\* reading units with zero point -3 and a softmax output (scale 1/256, zero
\* point -128); an input scale of 1 unit with zero point 100 and an output
\* scale of 0.01 with zero point 0.
ModelParams ==
  { [input_scale |-> 4, input_zp |-> -3, output_scale |-> 100, output_zp |-> -128],
    [input_scale |-> 1, input_zp |-> 100, output_scale |-> 256, output_zp |-> 0] }

NoParams == [input_scale |-> 0, input_zp |-> 0, output_scale |-> 0, output_zp |-> 0]

\* The motions a recording may see, and the reading of each at its k-th
\* sample: six channel values between -60 and 60 units.
Profiles == {1, 2}

Waveform(p, k) ==
  [j \in 0..(kNumFeatures - 1) |-> ((k * 7 + j * 13 + p * 29) % 121) - 60]

Out4(a, b, c, d) ==
  [i \in 0..(kNumClasses - 1) |->
     CASE i = 0 -> a [] i = 1 -> b [] i = 2 -> c [] i = 3 -> d]

\* Output tensors Invoke may leave during a run of the loop.
LoopOutputs ==
  { Out4(40, -128, -128, -128), Out4(-128, 60, -30, 60), Out4(-100, -100, 50, 35),
    Out4(-60, -60, -60, 36), Out4(-60, -60, -60, -60), Out4(-128, 35, 34, 0) }

ZeroBuffer ==
  [i \in 0..(kSequenceLength - 1) |-> [j \in 0..(kNumFeatures - 1) |-> 0]]

ClassifierInit ==
  /\ c_pc = "boot"
  /\ imu_buffer = ZeroBuffer
  /\ sample_count = 0
  /\ is_recording = FALSE
  /\ last_switch_state = HIGH
  /\ model_params = NoParams
  /\ led = LOW
  /\ motor = LOW
  /\ profile = 1
  /\ starts = 0
  /\ pin_ops = << >>
  /\ switch_writes = << >>
  /\ result_writes = << >>
  /\ invoked = << >>
  /\ invoke_out = << >>
  /\ loop_delays = << >>
  /\ sampled = FALSE
  /\ hold_ms = 0

\* ------------------------------------------------------------------------
\* Classifier: setup() (lines 78-165)
\* ------------------------------------------------------------------------
\* Lines 85-92: the pin writes of setup() and its startup pattern.  The
\* delay(1000) of line 79 precedes them and belongs to no pattern.
SetupOps ==
  << DigitalWrite("led", LOW), DigitalWrite("motor", LOW) >> \o hapticStartup

\* A setup() that leaves the switch state at its initializer (line 51).
SetupSwitchStateAsDeclared == HIGH

\* Line 96: last_switch_state = LOW;  the bool takes the value false, which
\* loop() reads as "the switch was last seen OFF".
SetupSwitchState == LOW

ClassifierSetup(imu_ok, ble_ok, version_ok, alloc_ok, params) ==
  /\ c_pc = "boot"
  /\ pin_ops' = SetupOps
  /\ led' = PinAfter(SetupOps, "led", led)
  /\ motor' = PinAfter(SetupOps, "motor", motor)
  /\ last_switch_state' = SetupSwitchState
  /\ IF imu_ok /\ ble_ok /\ version_ok /\ alloc_ok
     THEN c_pc' = "run" /\ model_params' = params
     ELSE c_pc' = "halt" /\ model_params' = model_params
  /\ UNCHANGED << imu_buffer, sample_count, is_recording, profile, starts,
                  switch_writes, result_writes, invoked, invoke_out,
                  loop_delays, sampled >>
  /\ ClassifierOnly

\* ------------------------------------------------------------------------
\* Classifier: loop() (lines 167-228)
\* ------------------------------------------------------------------------
\* Lines 205-225: the sample stored at row sample_count when recording goes
\* on, the window has room and ReadIMU succeeds.
StoreSample(buf, count, reading) == [buf EXCEPT ![count] = reading]

\* A read that goes on past the end of the window.
ShouldReadUnbounded(recording, count) == recording

\* Line 206: if (is_recording && sample_count < kSequenceLength)
ShouldRead(recording, count) == recording /\ count < kSequenceLength

\* A stop that classifies full windows only.
ShouldClassifyFullOnly(count) == count >= kSequenceLength

\* Line 198: if (sample_count > 0) classifyServe();
ShouldClassify(count) == count > 0

ClassifierLoop(switch_on, read_ok, invoke_ok, out, p) ==
  LET start == switch_on /\ ~last_switch_state
      stop == ~start /\ ~switch_on /\ last_switch_state /\ is_recording
      rec1 == IF start THEN TRUE ELSE IF stop THEN FALSE ELSE is_recording
      count1 == IF start THEN 0 ELSE sample_count
      prof1 == IF start THEN p ELSE profile
      classify == stop /\ ShouldClassify(sample_count)
      read == ShouldRead(rec1, count1)
      store == read /\ read_ok
  IN \E cls \in (IF c_pc = "run" /\ classify
                 THEN ClassifyServe(imu_buffer, sample_count, model_params,
                                    invoke_ok, out)
                 ELSE {NotClassified}) :
     LET ops == IF start THEN << DigitalWrite("led", LOW) >>
                ELSE IF stop
                     THEN << DigitalWrite("led", HIGH) >>
                          \o (IF classify THEN cls.ops ELSE << >>)
                     ELSE << >>
     IN
     /\ c_pc = "run"
     /\ start => starts < MaxStarts
     /\ is_recording' = rec1
     /\ profile' = prof1
     /\ starts' = IF start THEN starts + 1 ELSE starts
     /\ switch_writes' = IF start THEN << 1 >> ELSE IF stop THEN << 0 >> ELSE << >>
     /\ invoked' = IF classify THEN << cls.tensor >> ELSE << >>
     /\ result_writes' = IF classify THEN cls.result ELSE << >>
     /\ last_switch_state' = switch_on
     /\ imu_buffer' = IF store
                      THEN StoreSample(imu_buffer, count1, Waveform(prof1, count1))
                      ELSE imu_buffer
     /\ sample_count' = IF store THEN count1 + 1 ELSE count1
     /\ sampled' = store
     /\ invoke_out' = IF classify /\ invoke_ok THEN << out >> ELSE << >>
     /\ pin_ops' = ops
     /\ loop_delays' = (IF read THEN << 25 >> ELSE << >>) \o << 5 >>
     /\ led' = PinAfter(ops, "led", led)
     /\ motor' = PinAfter(ops, "motor", motor)
     /\ UNCHANGED << c_pc, model_params >>
     /\ UNCHANGED << dvars, lvars, qvars >>

\* The sample counts at which the user may flip the switch off: right after
\* the start, early in the swing, and around a full window.
StopCounts == {0, 1, 2, 3, kSequenceLength - 1, kSequenceLength}

\* The switch levels the next loop() may read.
SwitchLevels ==
  IF last_switch_state /\ is_recording /\ sample_count \notin StopCounts
  THEN {TRUE} ELSE BOOLEAN

\* Inputs are drawn where loop() consumes them: a motion when a recording
\* starts, an Invoke outcome when a window is classified.
StartProfiles(switch_on) ==
  IF switch_on /\ ~last_switch_state THEN Profiles ELSE {profile}

InvokeOutcomes(switch_on) ==
  IF ~switch_on /\ last_switch_state /\ is_recording /\ sample_count > 0
  THEN BOOLEAN \X LoopOutputs
  ELSE {<< TRUE, Out4(0, 0, 0, 0) >>}

ClassifierNext ==
  \/ \E imu_ok \in BOOLEAN, ble_ok \in BOOLEAN, version_ok \in BOOLEAN,
        alloc_ok \in BOOLEAN, params \in ModelParams :
        ClassifierSetup(imu_ok, ble_ok, version_ok, alloc_ok, params)
  \/ \E switch_on \in SwitchLevels, read_ok \in BOOLEAN :
        \E io \in InvokeOutcomes(switch_on), p \in StartProfiles(switch_on) :
          ClassifierLoop(switch_on, read_ok, io[1], io[2], p) /\ UNCHANGED hold_ms

\* ------------------------------------------------------------------------
\* The decision of classifyServe as a function of the output tensor
\* ------------------------------------------------------------------------
\* int8 values an output element takes: the extremes, two values below -1.0
\* at a zero point of 0, the values whose
\* probability is next to 0.35 for either output scale, and the percentages
\* 42, 30, 25, 20, 18 of an output scale of 0.01.
OutputValues == {-128, -120, -100, -39, -38, 0, 18, 20, 25, 30, 34, 35, 42, 127}

OutputParams ==
  { [output_scale |-> 100, output_zp |-> -128],
    [output_scale |-> 256, output_zp |-> 0] }

DecideInputs ==
  { [out |-> Out4(a, b, c, d), output_scale |-> q.output_scale, output_zp |-> q.output_zp] :
      a \in OutputValues, b \in OutputValues, c \in OutputValues, d \in OutputValues,
      q \in OutputParams }

DecideDefault ==
  [out |-> Out4(0, 0, 0, 0), output_scale |-> 100, output_zp |-> -128]

DecideIdle == d_in = DecideDefault /\ d_out = << >>

DecideInit == d_in \in DecideInputs /\ d_out = << >>

DecideStep ==
  /\ d_out = << >>
  /\ d_out' = << Decide(d_in.out, d_in.output_scale, d_in.output_zp) >>
  /\ UNCHANGED d_in
  /\ DecideOnly

\* ------------------------------------------------------------------------
\* The quantization of classifyServe as a function of the value
\* ------------------------------------------------------------------------
\* Values in units of which the scale is a whole number, up to MaxValue in
\* magnitude: far enough for every scale to reach both clamps.
MaxValue == 700

QuantScales == {1, 2, 3, 4, 7}

QuantZeroPoints == {-128, -3, 0, 100, 127}

\* Values whose quotient by the scale lies just below a half: 54525984 /
\* 8388613 = 6.49999994, which is 6.5 in single precision; 12582913 / 3 =
\* 4194304.33, which is 4194304.5.
QuantNearHalf ==
  { [value |-> v, shift |-> 0, input_scale |-> 8388613, input_zp |-> z] :
      v \in {54525984, -54525984}, z \in {0, 100} }
  \cup { [value |-> 12582913, shift |-> 0, input_scale |-> 3, input_zp |-> 0] }

\* Values value * 2^shift whose quotient by the scale lies at the ends of
\* int32_t and beyond: 16777215 * 2^7 = 2^31 - 128 is the greatest float
\* below 2^31, 2^31 and 3 * 2^30 are outside int32_t, and -2^31 is its least
\* value.
QuantWideShifts == {7, 30, 31, 40}

QuantWide ==
  [value : {-16777215, -3, -1, 1, 3, 16777215}, shift : QuantWideShifts,
   input_scale : {1, 2}, input_zp : QuantZeroPoints]

QuantInputs ==
  [value : (-MaxValue)..MaxValue, shift : {0}, input_scale : QuantScales,
   input_zp : QuantZeroPoints]
  \cup QuantNearHalf \cup QuantWide

QuantDefault == [value |-> 0, shift |-> 0, input_scale |-> 1, input_zp |-> 0]

QuantIdle == q_in = QuantDefault /\ q_out = << >>

QuantInit == q_in \in QuantInputs /\ q_out = << >>

QuantStep ==
  /\ q_out = << >>
  /\ \E q \in QuantizeScaled(q_in.value, q_in.shift, q_in.input_scale,
                              q_in.input_zp) :
        q_out' = << q >>
  /\ UNCHANGED q_in
  /\ QuantizeOnly

\* ------------------------------------------------------------------------
\* Logger: configuration and state (logger main.cpp 38-54, 147-148, 232-236)
\* ------------------------------------------------------------------------
SAMPLE_PERIOD_MS == 10

\* if (now - last < 200) return; // debounce
DEBOUNCE_MS == 200

\* if (now - lastSwitchCheckMs >= 50)
SWITCH_CHECK_MS == 50

\* uint16_t holds a value modulo U16.  sampleSerial is a uint32_t: its wrap at
\* 2^32 lies beyond any run considered here.
U16 == 65536

\* ServePacket pkt{}: every field zero.  The six readings are copied from
\* icmRead unchanged and are not carried here.
ZeroPacket == [millis_ms |-> 0, session |-> 0, sequence |-> 0, flags |-> 0]

LoggerInit ==
  /\ l_pc = "boot"
  /\ l_todo = {}
  /\ captureEnabled = FALSE
  /\ serveMarker = FALSE
  /\ sessionId = 0
  /\ sampleSerial = 0
  /\ btn_last = 0
  /\ lastSampleMs = 0
  /\ lastSwitchState = FALSE
  /\ lastSwitchCheckMs = 0
  /\ now = 0
  /\ pkt = ZeroPacket
  /\ serial_reg = 0
  /\ status_led = LOW
  /\ w_todo = {}
  /\ w_reg = 0
  /\ b_todo = {}
  /\ b_reg = 0
  /\ b_sid = 0
  /\ millis = 0
  /\ delay_left = 0
  /\ notified = << >>
  /\ accepted = 0
  /\ built = << >>

\* setup() and loop() run in one task, and the button interrupt is attached
\* from that task: the handler runs on its core and the task goes on only
\* when the handler has returned.  onWrite runs in the NimBLE host task,
\* which neither of them holds up.
HandlerReturned == b_todo = {}

\* ------------------------------------------------------------------------
\* Logger: the order of the accesses to the shared variables
\* ------------------------------------------------------------------------
\* captureEnabled and serveMarker are volatile (lines 40-41): a build keeps
\* the accesses to them in the order of the source.  sessionId and
\* sampleSerial are plain globals (lines 42-43) that loop(), the command
\* callback and the interrupt handler share without a lock: between two
\* calls the compiler cannot see into, a build may move their loads and
\* stores across the volatile accesses and across each other, a store
\* following the load its value comes from and never moving out of the
\* branch it stands in.  An access is ready when it is still to be made and
\* none of those that come before it in every build is.
Ready(todo, access, before) == access \in todo /\ before \cap todo = {}

\* A start of a recording by the command callback (lines 130-133) or by
\* the switch (lines 266-269): captureEnabled = true; sessionId++;
\* sampleSerial = 0; serveMarker = true.
StartAccesses == {"capture", "marker", "session_load", "session_store", "serial"}

StartOrder(access) ==
  CASE access = "marker" -> {"capture"}
    [] access = "session_store" -> {"session_load"}
    [] OTHER -> {}

\* The start of setup(), lines 218-220: three stores.
SetupAccesses == {"capture", "session", "serial"}

\* The handler, lines 152-157: the toggle (load and store), the test of
\* line 153, and what depends on it.
ButtonAccesses ==
  {"toggle_load", "toggle_store", "test", "session_load", "session_store",
   "serial", "marker"}

ButtonOrder(access) ==
  CASE access = "toggle_store" -> {"toggle_load"}
    [] access = "test" -> {"toggle_load", "toggle_store"}
    [] access = "marker" -> {"toggle_load", "toggle_store", "test"}
    [] access = "session_store" -> {"test", "session_load"}
    [] access = "serial" -> {"test"}
    [] OTHER -> {}

\* The building of a packet, lines 308-314.
BuildAccesses == {"session", "sequence", "serial", "flags", "clear"}

BuildOrder(access) ==
  CASE access = "serial" -> {"sequence"}
    [] access = "clear" -> {"flags"}
    [] OTHER -> {}

\* ------------------------------------------------------------------------
\* Logger: the command characteristic (lines 119-145), one action per store
\* or load of a variable shared with loop() and the interrupt handler
\* ------------------------------------------------------------------------
\* uint16_t sessionId; sessionId++
NextSession(id) == (id + 1) % U16

\* What onWrite has at hand when it enters its switch.
LoggingState ==
  [captureEnabled |-> captureEnabled, serveMarker |-> serveMarker,
   w_todo |-> w_todo]

\* A command switch whose default case stops the capture.
CommandEffectDefaultStops(cmd, st) ==
  CASE cmd = 1 -> [st EXCEPT !.w_todo = StartAccesses]
    [] cmd = 2 -> [st EXCEPT !.serveMarker = TRUE]
    [] OTHER -> [st EXCEPT !.captureEnabled = FALSE]

\* The switch of lines 124-143 on cmd = value[0], up to the break of the
\* case taken; of case 0x01 it leaves the accesses of lines 130-133 to be
\* made, in WriteCapture .. WriteSerial.
CommandEffect(cmd, st) ==
  CASE cmd = 0 -> [st EXCEPT !.captureEnabled = FALSE]
    [] cmd = 1 -> [st EXCEPT !.w_todo = StartAccesses]
    [] cmd = 2 -> [st EXCEPT !.serveMarker = TRUE]
    [] OTHER -> st

\* The state notifications a change of captureEnabled sends: the logger's
\* service has the IMU characteristic (notify) and the command characteristic
\* (write) and no state characteristic (lines 195-202); the three places
\* that change captureEnabled notify nothing (lines 126-133, 152-157,
\* 264-279).
LoggerStateWrites == << >>


\* ControlCallbacks::onWrite entered with the bytes `value` (lines 120-126,
\* 129, 137, 141).
OnWrite(value) ==
  LET st == IF Len(value) = 0 THEN LoggingState
            ELSE CommandEffect(value[1], LoggingState)
  IN /\ w_todo = {}
     /\ UNCHANGED << l_pc, l_todo, sessionId, sampleSerial, w_reg, loop_locals,
                     button_locals, clock, observed >>
     /\ captureEnabled' = st.captureEnabled
     /\ serveMarker' = st.serveMarker
     /\ w_todo' = st.w_todo
     /\ LoggerOnly

\* Line 130: captureEnabled = true;
WriteCapture ==
  /\ LoggerOnly
  /\ Ready(w_todo, "capture", StartOrder("capture"))
  /\ w_todo' = w_todo \ {"capture"}
  /\ captureEnabled' = TRUE
  /\ UNCHANGED << l_pc, l_todo, serveMarker, sessionId, sampleSerial, w_reg,
                  loop_locals, button_locals, clock, observed >>

\* Line 131: serveMarker = true; // mark boundary
WriteMarker ==
  /\ LoggerOnly
  /\ Ready(w_todo, "marker", StartOrder("marker"))
  /\ w_todo' = w_todo \ {"marker"}
  /\ serveMarker' = TRUE
  /\ UNCHANGED << l_pc, l_todo, captureEnabled, sessionId, sampleSerial, w_reg,
                  loop_locals, button_locals, clock, observed >>

\* Line 132: sessionId++; first the load,
WriteSessionLoad ==
  /\ LoggerOnly
  /\ Ready(w_todo, "session_load", StartOrder("session_load"))
  /\ w_todo' = w_todo \ {"session_load"}
  /\ w_reg' = sessionId
  /\ UNCHANGED << l_pc, l_todo, shared, loop_locals, button_locals, clock,
                  observed >>

\* then the store of the incremented value.
WriteSessionStore ==
  /\ LoggerOnly
  /\ Ready(w_todo, "session_store", StartOrder("session_store"))
  /\ w_todo' = w_todo \ {"session_store"}
  /\ sessionId' = NextSession(w_reg)
  /\ w_reg' = 0
  /\ UNCHANGED << l_pc, l_todo, captureEnabled, serveMarker, sampleSerial,
                  loop_locals, button_locals, clock, observed >>

\* Line 133: sampleSerial = 0;
WriteSerial ==
  /\ LoggerOnly
  /\ Ready(w_todo, "serial", StartOrder("serial"))
  /\ w_todo' = w_todo \ {"serial"}
  /\ sampleSerial' = 0
  /\ accepted' = 0
  /\ UNCHANGED << l_pc, l_todo, captureEnabled, serveMarker, sessionId, w_reg,
                  loop_locals, button_locals, clock, notified, built >>

WriteSteps ==
  \/ WriteCapture
  \/ WriteMarker
  \/ WriteSessionLoad
  \/ WriteSessionStore
  \/ WriteSerial

\* ------------------------------------------------------------------------
\* Logger: the button interrupt (lines 147-158), one action per store or
\* load of a shared variable
\* ------------------------------------------------------------------------
\* Line 150: whether an edge at time t is dropped, `last` being the time of
\* the edge accepted before it (0 at boot).
Debounced(t, last) == t - last < DEBOUNCE_MS

\* onButtonFalling entered at the current millis(): lines 148-151.
OnButtonFalling ==
  IF Debounced(millis, btn_last)
  THEN /\ b_todo = {}
       /\ UNCHANGED vars
  ELSE /\ LoggerOnly
       /\ b_todo = {}
       /\ b_todo' = ButtonAccesses
       /\ btn_last' = millis
       /\ UNCHANGED << l_pc, l_todo, shared, loop_locals, write_locals, b_reg,
                       b_sid, clock, observed >>

\* Line 152: captureEnabled = !captureEnabled; the load,
ButtonToggleLoad ==
  /\ LoggerOnly
  /\ Ready(b_todo, "toggle_load", ButtonOrder("toggle_load"))
  /\ b_todo' = b_todo \ {"toggle_load"}
  /\ b_reg' = IF captureEnabled THEN 1 ELSE 0
  /\ UNCHANGED << l_pc, l_todo, shared, loop_locals, write_locals, b_sid,
                  btn_last, clock, observed >>

\* and the store.
ButtonToggle ==
  /\ LoggerOnly
  /\ Ready(b_todo, "toggle_store", ButtonOrder("toggle_store"))
  /\ b_todo' = b_todo \ {"toggle_store"}
  /\ captureEnabled' = (b_reg = 0)
  /\ b_reg' = 0
  /\ UNCHANGED << l_pc, l_todo, serveMarker, sessionId, sampleSerial, b_sid,
                  btn_last, loop_locals, write_locals, clock, observed >>

\* Line 153: if (captureEnabled), read again: the accesses of lines 154-155
\* are made when it is set.  A load of sessionId made before the test goes
\* unused when it is not.
ButtonTest ==
  /\ LoggerOnly
  /\ Ready(b_todo, "test", ButtonOrder("test"))
  /\ b_todo' = IF captureEnabled
               THEN b_todo \ {"test"}
               ELSE b_todo \ {"test", "session_load", "session_store", "serial"}
  /\ b_sid' = IF captureEnabled THEN b_sid ELSE 0
  /\ UNCHANGED << l_pc, l_todo, shared, b_reg, btn_last, loop_locals,
                  write_locals, clock, observed >>

\* Line 154: sessionId++; the load,
ButtonSessionLoad ==
  /\ LoggerOnly
  /\ Ready(b_todo, "session_load", ButtonOrder("session_load"))
  /\ b_todo' = b_todo \ {"session_load"}
  /\ b_sid' = sessionId
  /\ UNCHANGED << l_pc, l_todo, shared, b_reg, btn_last, loop_locals,
                  write_locals, clock, observed >>

\* and the store.
ButtonSessionStore ==
  /\ LoggerOnly
  /\ Ready(b_todo, "session_store", ButtonOrder("session_store"))
  /\ b_todo' = b_todo \ {"session_store"}
  /\ sessionId' = NextSession(b_sid)
  /\ b_sid' = 0
  /\ UNCHANGED << l_pc, l_todo, captureEnabled, serveMarker, sampleSerial,
                  b_reg, btn_last, loop_locals, write_locals, clock, observed >>

\* Line 155: sampleSerial = 0;
ButtonSerial ==
  /\ LoggerOnly
  /\ Ready(b_todo, "serial", ButtonOrder("serial"))
  /\ b_todo' = b_todo \ {"serial"}
  /\ sampleSerial' = 0
  /\ accepted' = 0
  /\ UNCHANGED << l_pc, l_todo, captureEnabled, serveMarker, sessionId, b_reg,
                  b_sid, btn_last, loop_locals, write_locals, clock, notified,
                  built >>

\* Line 157: serveMarker = true;
ButtonMarker ==
  /\ LoggerOnly
  /\ Ready(b_todo, "marker", ButtonOrder("marker"))
  /\ b_todo' = b_todo \ {"marker"}
  /\ serveMarker' = TRUE
  /\ UNCHANGED << l_pc, l_todo, captureEnabled, sessionId, sampleSerial, b_reg,
                  b_sid, btn_last, loop_locals, write_locals, clock, observed >>

ButtonSteps ==
  \/ ButtonToggleLoad
  \/ ButtonToggle
  \/ ButtonTest
  \/ ButtonSessionLoad
  \/ ButtonSessionStore
  \/ ButtonSerial
  \/ ButtonMarker

\* d ms of the delay() that setup() is in go by.
Tick(d) ==
  /\ LoggerOnly
  /\ HandlerReturned
  /\ d <= delay_left
  /\ millis' = millis + d
  /\ delay_left' = delay_left - d
  /\ UNCHANGED << l_pc, l_todo, shared, loop_locals, write_locals,
                  button_locals, observed >>

\* ------------------------------------------------------------------------
\* Logger: setup() (lines 163-227)
\* ------------------------------------------------------------------------
\* Lines 164-173: the pins, the LED off, the button interrupt attached, and
\* delay(500) entered.
SetupAttach ==
  /\ LoggerOnly
  /\ HandlerReturned
  /\ l_pc = "boot"
  /\ l_pc' = "usb_wait"
  /\ status_led' = LOW
  /\ delay_left' = 500
  /\ UNCHANGED << l_todo, shared, lastSampleMs, lastSwitchState,
                  lastSwitchCheckMs, now, pkt, serial_reg, write_locals,
                  button_locals, millis, observed >>

\* Lines 174-181: delay(500) has returned; icmInit, whose result is only
\* logged.  icm_wait is what its delays (lines 82, 85) come to: 0 when the
\* first register write fails, 50 when a later one does, 60 when it runs
\* through or fails at its last read; nothing but I2C transfers lies between
\* the two delays.
SetupBringUp(icm_wait) ==
  /\ LoggerOnly
  /\ HandlerReturned
  /\ l_pc = "usb_wait"
  /\ delay_left = 0
  /\ l_pc' = "icm_wait"
  /\ delay_left' = icm_wait
  /\ UNCHANGED << l_todo, shared, loop_locals, write_locals, button_locals,
                  millis, observed >>

\* Lines 187-213: icmInit has returned; the BLE service is set up and
\* advertised.
SetupAdvertise ==
  /\ LoggerOnly
  /\ HandlerReturned
  /\ l_pc = "icm_wait"
  /\ delay_left = 0
  /\ l_pc' = "advertising"
  /\ UNCHANGED << l_todo, shared, loop_locals, write_locals, button_locals,
                  clock, observed >>

\* Lines 215-217, 224: the initial switch level; with the switch ON the
\* stores of lines 218-220 are to be made.
SetupSwitch(initialSwitchState) ==
  /\ LoggerOnly
  /\ HandlerReturned
  /\ l_pc = "advertising"
  /\ IF initialSwitchState
     THEN /\ l_pc' = "setup_start"
          /\ l_todo' = SetupAccesses
          /\ UNCHANGED status_led
     ELSE /\ l_pc' = "top"
          /\ status_led' = LOW
          /\ UNCHANGED l_todo
  /\ UNCHANGED << shared, lastSampleMs, lastSwitchState, lastSwitchCheckMs, now,
                  pkt, serial_reg, write_locals, button_locals, clock,
                  observed >>

\* Lines 221-227 once the stores of lines 218-220 are made: the LED driven
\* HIGH, and setup() returns.
SetupStarted(access) ==
  /\ l_pc = "setup_start"
  /\ access \in l_todo
  /\ l_todo' = l_todo \ {access}
  /\ l_pc' = IF l_todo' = {} THEN "top" ELSE l_pc
  /\ status_led' = IF l_todo' = {} THEN HIGH ELSE status_led

\* Line 218: captureEnabled = true;
SetupCapture ==
  /\ LoggerOnly
  /\ HandlerReturned
  /\ SetupStarted("capture")
  /\ captureEnabled' = TRUE
  /\ UNCHANGED << serveMarker, sessionId, sampleSerial, lastSampleMs,
                  lastSwitchState, lastSwitchCheckMs, now, pkt, serial_reg,
                  write_locals, button_locals, clock, observed >>

\* Line 219: sessionId = 1;
SetupSession ==
  /\ LoggerOnly
  /\ HandlerReturned
  /\ SetupStarted("session")
  /\ sessionId' = 1
  /\ UNCHANGED << captureEnabled, serveMarker, sampleSerial, lastSampleMs,
                  lastSwitchState, lastSwitchCheckMs, now, pkt, serial_reg,
                  write_locals, button_locals, clock, observed >>

\* Line 220: sampleSerial = 0;
SetupSerial ==
  /\ LoggerOnly
  /\ HandlerReturned
  /\ SetupStarted("serial")
  /\ sampleSerial' = 0
  /\ accepted' = 0
  /\ UNCHANGED << captureEnabled, serveMarker, sessionId, lastSampleMs,
                  lastSwitchState, lastSwitchCheckMs, now, pkt, serial_reg,
                  write_locals, button_locals, clock, notified, built >>

\* ------------------------------------------------------------------------
\* Logger: loop() (lines 232-322), one action per access to the variables
\* it shares with the interrupt handler and the command callback
\* ------------------------------------------------------------------------
\* Lines 284-289: the sample period gate on t, the value of `now`: when no
\* sample is due loop() enters delay(1).
SamplePeriodGate(t) ==
  LET due == ~(t - lastSampleMs < SAMPLE_PERIOD_MS)
  IN /\ lastSampleMs' = IF due THEN t ELSE lastSampleMs
     /\ now' = IF due THEN t ELSE 0
     /\ l_pc' = IF due THEN "read" ELSE "delay"

\* Lines 238-264 and then, when the switch was turned ON, nothing more; when
\* it was turned OFF, lines 275-277; when there was no edge, lines 281-289:
\* now = millis(); the switch check every 50 ms (`level` is what digitalRead
\* returns as switchOn); on the ON edge the accesses of lines 266-269 are to
\* be made; on the OFF edge captureEnabled = false, the LED is driven HIGH and
\* loop() waits in the Serial.flush() of line 278.  The heartbeat of lines
\* 241-251 only prints.
LoopTop(level) ==
  LET t == millis
      check == t - lastSwitchCheckMs >= SWITCH_CHECK_MS
      on_edge == check /\ level /\ ~lastSwitchState
      off_edge == check /\ ~level /\ lastSwitchState
  IN /\ LoggerOnly
     /\ HandlerReturned
     /\ l_pc = "top"
     /\ lastSwitchCheckMs' = IF check THEN t ELSE lastSwitchCheckMs
     /\ notified' = << >>
     /\ IF on_edge
        THEN /\ l_pc' = "edge"
             /\ l_todo' = StartAccesses
             /\ now' = t
             /\ UNCHANGED << captureEnabled, lastSampleMs, lastSwitchState,
                             status_led >>
        ELSE IF off_edge
        THEN /\ captureEnabled' = FALSE
             /\ status_led' = HIGH
             /\ l_pc' = "off_flush"
             /\ now' = t
             /\ UNCHANGED << lastSampleMs, lastSwitchState, l_todo >>
        ELSE /\ lastSwitchState' = IF check THEN level ELSE lastSwitchState
             /\ SamplePeriodGate(t)
             /\ UNCHANGED << captureEnabled, status_led, l_todo >>
     /\ UNCHANGED << serveMarker, sessionId, sampleSerial, pkt, serial_reg,
                     write_locals, button_locals, clock, accepted, built >>

\* Lines 272 and 278 have returned, then lines 281-289: Serial.flush() is
\* over, lastSwitchState = switchOn, the sample period gate with the `now` of
\* line 238.
LoopFlushed ==
  /\ LoggerOnly
  /\ HandlerReturned
  /\ l_pc \in {"on_flush", "off_flush"}
  /\ lastSwitchState' = (l_pc = "on_flush")
  /\ SamplePeriodGate(now)
  /\ UNCHANGED << l_todo, shared, lastSwitchCheckMs, pkt, serial_reg,
                  status_led, write_locals, button_locals, clock, observed >>

\* Lines 286-287: delay(1); return;
LoopDelay ==
  /\ LoggerOnly
  /\ HandlerReturned
  /\ l_pc = "delay"
  /\ l_pc' = "top"
  /\ millis' = millis + 1
  /\ UNCHANGED << l_todo, shared, loop_locals, write_locals, button_locals,
                  delay_left, observed >>

\* One access of the ON edge; after the last of them line 270, the LED driven
\* LOW, and loop() waits in the Serial.flush() of line 272.
EdgeAccess(access) ==
  /\ l_pc = "edge"
  /\ Ready(l_todo, access, StartOrder(access))
  /\ l_todo' = l_todo \ {access}
  /\ l_pc' = IF l_todo' = {} THEN "on_flush" ELSE l_pc
  /\ status_led' = IF l_todo' = {} THEN LOW ELSE status_led
  /\ UNCHANGED << lastSwitchState, lastSampleMs, now >>

\* Line 266: captureEnabled = true;
LoopEdgeCapture ==
  /\ LoggerOnly
  /\ HandlerReturned
  /\ EdgeAccess("capture")
  /\ captureEnabled' = TRUE
  /\ UNCHANGED << serveMarker, sessionId, sampleSerial, lastSwitchCheckMs, pkt,
                  serial_reg, write_locals, button_locals, clock, observed >>

\* Line 267: sessionId++; the load,
LoopEdgeSessionLoad ==
  /\ LoggerOnly
  /\ HandlerReturned
  /\ EdgeAccess("session_load")
  /\ serial_reg' = sessionId
  /\ UNCHANGED << shared, lastSwitchCheckMs, pkt, write_locals, button_locals,
                  clock, observed >>

\* and the store.
LoopEdgeSessionStore ==
  /\ LoggerOnly
  /\ HandlerReturned
  /\ EdgeAccess("session_store")
  /\ sessionId' = NextSession(serial_reg)
  /\ serial_reg' = 0
  /\ UNCHANGED << captureEnabled, serveMarker, sampleSerial, lastSwitchCheckMs,
                  pkt, write_locals, button_locals, clock, observed >>

\* Line 268: sampleSerial = 0;
LoopEdgeSerial ==
  /\ LoggerOnly
  /\ HandlerReturned
  /\ EdgeAccess("serial")
  /\ sampleSerial' = 0
  /\ accepted' = 0
  /\ UNCHANGED << captureEnabled, serveMarker, sessionId, lastSwitchCheckMs,
                  pkt, serial_reg, write_locals, button_locals, clock,
                  notified, built >>

\* Line 269: serveMarker = true;
LoopEdgeMarker ==
  /\ LoggerOnly
  /\ HandlerReturned
  /\ EdgeAccess("marker")
  /\ serveMarker' = TRUE
  /\ UNCHANGED << captureEnabled, sessionId, sampleSerial, lastSwitchCheckMs,
                  pkt, serial_reg, write_locals, button_locals, clock,
                  observed >>

LoopEdgeSteps ==
  \/ LoopEdgeCapture
  \/ LoopEdgeSessionLoad
  \/ LoopEdgeSessionStore
  \/ LoopEdgeSerial
  \/ LoopEdgeMarker

\* A loop() that uses up a sequence number for a read that failed.
LoopReadCountingFailures(read_ok) ==
  /\ HandlerReturned
  /\ l_pc = "read"
  /\ l_pc' = IF read_ok /\ captureEnabled THEN "build" ELSE "top"
  /\ l_todo' = IF read_ok /\ captureEnabled THEN BuildAccesses ELSE {}
  /\ pkt' = IF read_ok /\ captureEnabled
            THEN [ZeroPacket EXCEPT !.millis_ms = now] ELSE pkt
  /\ now' = IF read_ok /\ captureEnabled THEN now ELSE 0
  /\ accepted' = IF read_ok /\ captureEnabled THEN accepted + 1 ELSE accepted
  /\ sampleSerial' = IF read_ok THEN sampleSerial ELSE sampleSerial + 1
  /\ UNCHANGED << captureEnabled, serveMarker, sessionId, lastSampleMs,
                  lastSwitchState, lastSwitchCheckMs, serial_reg, status_led,
                  write_locals, button_locals, clock, notified, built >>
  /\ LoggerOnly

\* Lines 291-307: icmRead, then the test of captureEnabled; with capture on
\* ServePacket pkt{}; pkt.millis_ms = now; and the accesses of lines 308-314
\* are to be made.
LoopRead(read_ok) ==
  /\ LoggerOnly
  /\ HandlerReturned
  /\ l_pc = "read"
  /\ l_pc' = IF read_ok /\ captureEnabled THEN "build" ELSE "top"
  /\ l_todo' = IF read_ok /\ captureEnabled THEN BuildAccesses ELSE {}
  /\ pkt' = IF read_ok /\ captureEnabled
            THEN [ZeroPacket EXCEPT !.millis_ms = now] ELSE pkt
  /\ now' = IF read_ok /\ captureEnabled THEN now ELSE 0
  /\ accepted' = IF read_ok /\ captureEnabled THEN accepted + 1 ELSE accepted
  /\ UNCHANGED << shared, lastSampleMs, lastSwitchState, lastSwitchCheckMs,
                  serial_reg, status_led, write_locals, button_locals, clock,
                  notified, built >>

\* One access of the building of a packet; after the last of them loop() is
\* at the test of line 317.
BuildAccess(access) ==
  /\ l_pc = "build"
  /\ Ready(l_todo, access, BuildOrder(access))
  /\ l_todo' = l_todo \ {access}
  /\ l_pc' = IF l_todo' = {} THEN "send" ELSE l_pc

\* Line 308: pkt.session = sessionId;
LoopSession ==
  /\ LoggerOnly
  /\ HandlerReturned
  /\ BuildAccess("session")
  /\ pkt' = [pkt EXCEPT !.session = sessionId]
  /\ UNCHANGED << shared, lastSampleMs, lastSwitchState, lastSwitchCheckMs, now,
                  serial_reg, status_led, write_locals, button_locals, clock,
                  observed >>

\* The uint32_t counter stored into the uint16_t field pkt.sequence.
SequenceField(serial) == serial % U16

\* Line 309: pkt.sequence = sampleSerial++; first the load of sampleSerial
\* and the store of its low 16 bits into the packet,
LoopSequence ==
  /\ LoggerOnly
  /\ HandlerReturned
  /\ BuildAccess("sequence")
  /\ serial_reg' = sampleSerial
  /\ pkt' = [pkt EXCEPT !.sequence = SequenceField(sampleSerial)]
  /\ UNCHANGED << shared, lastSampleMs, lastSwitchState, lastSwitchCheckMs, now,
                  status_led, write_locals, button_locals, clock, observed >>

\* then the store of the incremented value.
LoopSerial ==
  /\ LoggerOnly
  /\ HandlerReturned
  /\ BuildAccess("serial")
  /\ sampleSerial' = serial_reg + 1
  /\ serial_reg' = 0
  /\ UNCHANGED << captureEnabled, serveMarker, sessionId, lastSampleMs,
                  lastSwitchState, lastSwitchCheckMs, now, pkt, status_led,
                  write_locals, button_locals, clock, observed >>

\* Line 312: pkt.flags = 0x01 | (serveMarker ? 0x02 : 0x00);
LoopFlags ==
  /\ LoggerOnly
  /\ HandlerReturned
  /\ BuildAccess("flags")
  /\ pkt' = [pkt EXCEPT !.flags = 1 + (IF serveMarker THEN 2 ELSE 0)]
  /\ UNCHANGED << shared, lastSampleMs, lastSwitchState, lastSwitchCheckMs, now,
                  serial_reg, status_led, write_locals, button_locals, clock,
                  observed >>

\* Line 314: serveMarker = false;
LoopClear ==
  /\ LoggerOnly
  /\ HandlerReturned
  /\ BuildAccess("clear")
  /\ serveMarker' = FALSE
  /\ UNCHANGED << captureEnabled, sessionId, sampleSerial, loop_locals,
                  write_locals, button_locals, clock, observed >>

\* One more packet carrying session id s among the packets counted in b.
CountPacket(b, s) ==
  [x \in DOMAIN b \cup {s} |-> IF x \in DOMAIN b
                               THEN (IF x = s THEN b[x] + 1 ELSE b[x])
                               ELSE 1]

\* Lines 316-321: notify the packet if a central is connected; `connected`
\* is getConnectedCount() > 0 at that moment.
LoopSend(connected) ==
  /\ LoggerOnly
  /\ HandlerReturned
  /\ l_pc = "send"
  /\ l_pc' = "top"
  /\ notified' = IF connected THEN << pkt >> ELSE << >>
  /\ built' = CountPacket(built, pkt.session)
  /\ pkt' = ZeroPacket
  /\ now' = 0
  /\ UNCHANGED << l_todo, shared, lastSampleMs, lastSwitchState,
                  lastSwitchCheckMs, serial_reg, status_led, write_locals,
                  button_locals, clock, accepted >>

LoopSteps ==
  \/ LoopSession
  \/ LoopSequence
  \/ LoopSerial
  \/ LoopFlags
  \/ LoopClear

\* ------------------------------------------------------------------------
\* Specifications
\* ------------------------------------------------------------------------
\* The classifier: setup() once, then loop() over and over.
Init == ClassifierInit /\ DecideIdle /\ LoggerInit /\ QuantIdle

Next == ClassifierNext

Spec == Init /\ [][Next]_vars

\* The decision of classifyServe on every output tensor of DecideInputs.
InitDecide == ClassifierInit /\ DecideInit /\ LoggerInit /\ QuantIdle

NextDecide == DecideStep

SpecDecide == InitDecide /\ [][NextDecide]_vars

\* The quantization of classifyServe on every input of QuantInputs.
InitQuant == ClassifierInit /\ DecideIdle /\ LoggerInit /\ QuantInit

NextQuant == QuantStep

SpecQuant == InitQuant /\ [][NextQuant]_vars

\* The logger: setup(), then loop(), with the button interrupt arriving
\* between any two steps of theirs and during the delays of setup(), and the
\* command callback running alongside once the service is advertised.
WriteValues == { << >>, << 0 >>, << 1 >>, << 2 >>, << 3 >>, << 255 >> }

\* Sessions one run of the logger may start.
MaxSessionId == 1

\* The clock value a run of the logger stops at.
LoggerHorizon == 571

\* The pieces a delay of setup() with `left` ms to go is watched in: the
\* button may be pressed between two of them.
TickSteps(left) == IF left >= 100 THEN {100} ELSE {10}

\* Whether a write of `value` starts a recording.
StartsSession(value) == Len(value) > 0 /\ value[1] = 1

LoggerEnv ==
  \/ \E value \in WriteValues :
        /\ l_pc \notin {"boot", "usb_wait", "icm_wait"}
        /\ StartsSession(value) => sessionId < MaxSessionId
        /\ OnWrite(value)
  \/ WriteSteps
  \/ /\ l_pc # "boot"
     /\ ~captureEnabled => sessionId < MaxSessionId
     /\ OnButtonFalling
  \/ ButtonSteps

LoggerSetup ==
  \/ SetupAttach
  \/ SetupBringUp(60)
  \/ SetupAdvertise
  \/ \E initialSwitchState \in BOOLEAN : SetupSwitch(initialSwitchState)
  \/ SetupCapture
  \/ SetupSession
  \/ SetupSerial
  \/ \E d \in TickSteps(delay_left) : Tick(d)

\* loop() called over and over until the clock reaches `horizon`.
LoggerLoop(horizon) ==
  \/ \E level \in BOOLEAN :
        /\ millis < horizon
        /\ (level /\ ~lastSwitchState) => sessionId < MaxSessionId
        /\ LoopTop(level)
  \/ LoopDelay
  \/ LoopEdgeSteps
  \/ LoopFlushed
  \/ \E read_ok \in BOOLEAN : LoopRead(read_ok)
  \/ LoopSteps
  \/ \E connected \in BOOLEAN : LoopSend(connected)

NextLogger ==
  \/ LoggerSetup
  \/ LoggerLoop(LoggerHorizon)
  \/ LoggerEnv

SpecLogger == Init /\ [][NextLogger]_vars

\* One long recording of the logger: the switch is ON at boot and stays ON,
\* every read succeeds, no central connects, nothing is written to the
\* command characteristic and the button is not pressed.
MaxLongSamples == 65537

\* Samples of the long recording already accepted where a run may pick it up.
LongStart == 65520

\* Samples a run of the long recording that starts at boot is followed for.
LongBootSamples == 40

\* The first loop() of the long recording runs when setup() returns: after
\* its delay(500) and the 60 ms of icmInit's delays.
LongFirstLoopMs == 500 + 60

\* The logger between two calls of loop() once that recording has had k >= 1
\* samples accepted: setup() set session 1, the first loop() saw the ON edge
\* and started session 2, and the k-th sample was read at
\* LongFirstLoopMs + (k - 1) * SAMPLE_PERIOD_MS.
LoggerAfter(k) ==
  /\ l_pc = "top"
  /\ l_todo = {}
  /\ captureEnabled = TRUE
  /\ serveMarker = FALSE
  /\ sessionId = 2
  /\ sampleSerial = k
  /\ btn_last = 0
  /\ lastSampleMs = LongFirstLoopMs + (k - 1) * SAMPLE_PERIOD_MS
  /\ lastSwitchState = TRUE
  /\ lastSwitchCheckMs =
       LongFirstLoopMs
         + (((k - 1) * SAMPLE_PERIOD_MS) \div SWITCH_CHECK_MS) * SWITCH_CHECK_MS
  /\ now = 0
  /\ pkt = ZeroPacket
  /\ serial_reg = 0
  /\ status_led = LOW
  /\ w_todo = {}
  /\ w_reg = 0
  /\ b_todo = {}
  /\ b_reg = 0
  /\ b_sid = 0
  /\ millis = LongFirstLoopMs + (k - 1) * SAMPLE_PERIOD_MS
  /\ delay_left = 0
  /\ notified = << >>
  /\ accepted = k
  /\ built = [s \in {2} |-> k]

\* A run starts at boot or picks the recording up after LongStart samples.
InitLong ==
  /\ ClassifierInit
  /\ DecideIdle
  /\ QuantIdle
  /\ (LoggerInit \/ LoggerAfter(LongStart))

NextLong ==
  \/ SetupAttach
  \/ SetupBringUp(60)
  \/ SetupAdvertise
  \/ SetupSwitch(TRUE)
  \/ SetupCapture
  \/ SetupSession
  \/ SetupSerial
  \/ \E d \in TickSteps(delay_left) : Tick(d)
  \/ /\ accepted < (IF accepted < LongStart THEN LongBootSamples
                      ELSE MaxLongSamples)
     /\ LoopTop(TRUE)
  \/ LoopDelay
  \/ LoopEdgeSteps
  \/ LoopFlushed
  \/ LoopRead(TRUE)
  \/ LoopSteps
  \/ LoopSend(FALSE)

SpecLong == InitLong /\ [][NextLong]_vars

\* The logger booting with a sensor that does not initialise: icmInit returns
\* false at its first register write (no delay spent), at a later one
\* (after the delay of line 82) or at the WHO_AM_I read (after both delays);
\* setup() and loop() go on as the code has
\* them, the switch at any level and the later reads succeeding or failing.
InitFailsHorizon == 620

NextInitFails ==
  \/ SetupAttach
  \/ \E icm_wait \in {0, 50, 60} : SetupBringUp(icm_wait)
  \/ SetupAdvertise
  \/ \E initialSwitchState \in BOOLEAN : SetupSwitch(initialSwitchState)
  \/ SetupCapture
  \/ SetupSession
  \/ SetupSerial
  \/ \E d \in TickSteps(delay_left) : Tick(d)
  \/ LoggerLoop(InitFailsHorizon)

SpecInitFails == Init /\ [][NextInitFails]_vars

\* The classifier timed: every read succeeds, and the user holds the switch
\* ON for one of HoldTimes ms: the switch reads OFF at the first call of
\* loop() that starts when that time has passed.
HoldTimes == {1000, 4000}

RECURSIVE SumMs(_)
SumMs(delays) == IF delays = << >> THEN 0 ELSE Head(delays) + SumMs(Tail(delays))

\* The hold time has just passed: it had not when the last call started.
HoldTimePassed ==
  \E T \in HoldTimes : hold_ms - SumMs(loop_delays) < T /\ T <= hold_ms

HeldSwitchLevels ==
  IF ~is_recording THEN BOOLEAN
  ELSE IF \A T \in HoldTimes : T <= hold_ms THEN {FALSE}
  ELSE IF HoldTimePassed THEN BOOLEAN
  ELSE {TRUE}

\* One call of loop() with the stopwatch: started at 0 by the call that sees
\* the switch turned ON, advanced by the delays of every call made while
\* recording, stopped by the call that sees the switch OFF.
TimedLoop ==
  \E switch_on \in HeldSwitchLevels :
    \E io \in InvokeOutcomes(switch_on), p \in StartProfiles(switch_on) :
      /\ ClassifierLoop(switch_on, TRUE, io[1], io[2], p)
      /\ hold_ms' = IF is_recording'
                    THEN (IF is_recording THEN hold_ms ELSE 0) + SumMs(loop_delays')
                    ELSE hold_ms

NextRate ==
  \/ \E params \in ModelParams : ClassifierSetup(TRUE, TRUE, TRUE, TRUE, params)
  \/ TimedLoop

SpecRate == Init /\ [][NextRate]_vars

\* Either device running alone, without button presses or commands: the
\* classifier's setup() and loop(), or the logger's setup() and loop().
NextEither ==
  \/ l_pc = "boot" /\ ClassifierNext
  \/ c_pc = "boot" /\ LoggerSetup
  \/ c_pc = "boot" /\ LoggerLoop(LoggerHorizon)

SpecEither == Init /\ [][NextEither]_vars

\* ------------------------------------------------------------------------
\* Properties of the classifier's sample window (Spec)
\* ------------------------------------------------------------------------
\* What the reading the sensor gave for row i of the current recording can
\* be quantized to with the loaded model's input parameters.
QuantizedSample(i, j) ==
  Quantize(Waveform(profile, i)[j], model_params.input_scale, model_params.input_zp)

\* C1: the window count stays within 0..160, and once it is 160 while
\* recording, a further loop iteration stores nothing and leaves the count
\* and the 160 stored samples as they are.
C1_WindowBounded ==
  /\ [](sample_count \in 0..kSequenceLength)
  /\ [][(sample_count = kSequenceLength /\ is_recording)
          => (/\ sample_count' = kSequenceLength
              /\ imu_buffer' = imu_buffer
              /\ ~sampled')]_vars

\* A loop iteration ran with the window full and the recording going on: it
\* attempted no read (only the 5 ms delay) and stored nothing.
C1_FullWindowIterated ==
  /\ sample_count = kSequenceLength
  /\ is_recording
  /\ loop_delays = << 5 >>
  /\ ~sampled
  /\ \A i \in 0..(kSequenceLength - 1) : imu_buffer[i] = Waveform(profile, i)

\* C2: a step from recording to idle hands the window to Invoke exactly once
\* when it holds at least one sample and not at all when it holds none, in
\* the same iteration, which stores no sample and processes no other edge;
\* the captured samples are all in the tensor handed over; no other step
\* classifies.
C2_StopClassifiesOnce ==
  [][LET stopping == is_recording /\ ~is_recording'
     IN /\ stopping =>
             /\ Len(invoked') = (IF sample_count > 0 THEN 1 ELSE 0)
             /\ switch_writes' = << 0 >>
             /\ ~sampled'
             /\ sample_count' = sample_count
             /\ imu_buffer' = imu_buffer
             /\ sample_count > 0 =>
                  \A i \in 0..(sample_count - 1), j \in 0..(kNumFeatures - 1) :
                     {invoked'[1][i * kNumFeatures + j]} = QuantizedSample(i, j)
        /\ ~stopping => invoked' = << >>]_vars

\* A recording stopped before its window was full, and was classified.
C2_PartialWindowClassified ==
  /\ invoked # << >>
  /\ ~is_recording
  /\ switch_writes = << 0 >>
  /\ sample_count \in 1..(kSequenceLength - 1)

\* C3: when a window of fewer than 160 samples is classified, rows below the
\* count of the input tensor hold the quantized samples of this recording in
\* capture order and every element of the rows from the count on is the
\* input zero point.
C3_PaddingIsZeroPoint ==
  (invoked # << >> /\ sample_count < kSequenceLength) =>
     \A i \in 0..(kSequenceLength - 1), j \in 0..(kNumFeatures - 1) :
        {invoked[1][i * kNumFeatures + j]} =
           IF i < sample_count THEN QuantizedSample(i, j)
                               ELSE {model_params.input_zp}

\* A short window was classified while the buffer still held, beyond the
\* count, a sample of an earlier and longer recording whose quantized value
\* is not the zero point.
C3_StaleRowsPadded ==
  /\ invoked # << >>
  /\ sample_count < kSequenceLength
  /\ \E i \in sample_count..(kSequenceLength - 1), j \in 0..(kNumFeatures - 1) :
        /\ imu_buffer[i][j] # 0
        /\ Quantize(imu_buffer[i][j], model_params.input_scale,
                    model_params.input_zp) # {model_params.input_zp}

\* ------------------------------------------------------------------------
\* Properties of the decision (SpecDecide)
\* ------------------------------------------------------------------------
\* The probability of class i the output tensor d_in stands for, and the
\* greatest of the four.
TrueProb(i) == (d_in.out[i] - d_in.output_zp) * d_in.output_scale

MaxTrueProb ==
  CHOOSE m \in {TrueProb(i) : i \in 0..(kNumClasses - 1)} :
     \A i \in 0..(kNumClasses - 1) : TrueProb(i) <= m

\* The lowest class index whose probability is the greatest.
LowestMaxIndex ==
  CHOOSE i \in 0..(kNumClasses - 1) :
     /\ TrueProb(i) = MaxTrueProb
     /\ \A k \in 0..(i - 1) : TrueProb(k) < MaxTrueProb

\* An output tensor whose scale is 0.01 and whose zero point is 0: element q
\* stands for q percent.
PercentTensor(a, b, c, d) ==
  [out |-> Out4(a, b, c, d), output_scale |-> 256, output_zp |-> 0]

\* C4: the result is confident exactly when the greatest probability is at
\* least 0.35; the message carries the winning class's label when confident
\* and UNKNOWN otherwise, and always the four probabilities, as percentages
\* to the nearest tenth, in the order of the classes.  The two end-to-end
\* scenarios give the messages good-serve:42.0,20.0,18.0,20.0 and
\* UNKNOWN:30.0,25.0,25.0,20.0.
C4_ConfidentIffAtLeastThreshold ==
  d_out # << >> =>
    LET r == d_out[1]
        confident == 100 * MaxTrueProb >= 35 * PUnit
    IN /\ r.is_confident <=> confident
       /\ r.result_msg.label =
            (IF confident THEN labels[LowestMaxIndex] ELSE "UNKNOWN")
       /\ \A i \in 0..(kNumClasses - 1) :
            /\ r.probabilities[i] = TrueProb(i)
            /\ 2 * (r.result_msg.fields[i] * PUnit - 1000 * TrueProb(i))
                 \in (-PUnit)..PUnit
       /\ d_in = PercentTensor(42, 20, 18, 20) =>
            /\ r.result_msg.label = "good-serve"
            /\ r.result_msg.fields = Out4(420, 200, 180, 200)
       /\ d_in = PercentTensor(30, 25, 25, 20) =>
            /\ r.result_msg.label = "UNKNOWN"
            /\ r.result_msg.fields = Out4(300, 250, 250, 200)

\* The decision was taken on a tensor whose greatest probability is exactly
\* 0.35, and the message carries a class label.
C4_BoundaryIsConfident ==
  /\ d_out # << >>
  /\ 100 * MaxTrueProb = 35 * PUnit
  /\ d_out[1].is_confident
  /\ d_out[1].result_msg.label = labels[LowestMaxIndex]

\* C5: for every output tensor and every output scale and zero point, the
\* selected class is the lowest index whose probability is the greatest.
C5_LowestIndexOfMaximum ==
  d_out # << >> => d_out[1].best_idx = LowestMaxIndex

\* ------------------------------------------------------------------------
\* Properties of the feedback (Spec)
\* ------------------------------------------------------------------------
On(ms) == [on |-> TRUE, ms |-> ms]
Off(ms) == [on |-> FALSE, ms |-> ms]

\* The listed steps of the pattern of each class.
ListedSteps(class) ==
  CASE class = 0 -> << On(100), Off(100), On(100), Off(100), On(100), Off(100) >>
    [] class = 1 -> << On(400), Off(200), On(400), Off(200) >>
    [] class = 2 -> << On(500), Off(150), On(100), Off(100), On(100), Off(100) >>
    [] class = 3 -> << On(80), Off(80), On(80), Off(80), On(80), Off(80),
                       On(80), Off(80) >>

ListedStartup == << On(1000) >>

\* The last call was a call of loop().
InLoop == c_pc = "run" /\ loop_delays # << >>

\* The last call drove the motor.
MotorActuated ==
  \E k \in 1..Len(pin_ops) : pin_ops[k] = DigitalWrite("motor", HIGH)

\* The probability of class i in the output tensor the last Invoke left, the
\* greatest of the four and the lowest class that has it.
LoopProb(i) ==
  (invoke_out[1][i] - model_params.output_zp) * model_params.output_scale

LoopMaxProb ==
  CHOOSE m \in {LoopProb(i) : i \in 0..(kNumClasses - 1)} :
     \A i \in 0..(kNumClasses - 1) : LoopProb(i) <= m

LoopWinner ==
  CHOOSE i \in 0..(kNumClasses - 1) :
     /\ LoopProb(i) = LoopMaxProb
     /\ \A k \in 0..(i - 1) : LoopProb(k) < LoopMaxProb

\* C6: after a classification the motor plays a pattern exactly when the
\* greatest probability is at least 0.35, and then the pattern of the
\* winning class; for an unconfident result the motor is never driven and
\* the result message is sent all the same; an iteration that classifies
\* nothing drives no motor and sends no message.
C6_FeedbackIffConfident ==
  InLoop =>
    IF invoke_out # << >>
    THEN /\ Len(result_writes) = 1
         /\ IF 100 * LoopMaxProb >= 35 * PUnit
            THEN /\ MotorActuated
                 /\ PulsesFrom(pin_ops, LOW) = ListedSteps(LoopWinner)
                 /\ result_writes[1].label = labels[LoopWinner]
            ELSE /\ ~MotorActuated
                 /\ PulsesFrom(pin_ops, LOW) = << >>
                 /\ result_writes[1].label = "UNKNOWN"
    ELSE ~MotorActuated /\ result_writes = << >>

\* An unconfident result was sent and no pattern played.
C6_UnknownSentWithoutFeedback ==
  /\ InLoop
  /\ invoke_out # << >>
  /\ 100 * LoopMaxProb < 35 * PUnit
  /\ Len(result_writes) = 1
  /\ result_writes[1].label = "UNKNOWN"
  /\ ~MotorActuated

\* C7: the startup pattern and the pattern of each class execute exactly
\* their listed steps, and no call spends more than 2400 ms in a pattern.
C7_PatternsAsListed ==
  /\ (c_pc # "boot" /\ loop_delays = << >>) =>
        PulsesFrom(pin_ops, LOW) = ListedStartup
  /\ (InLoop /\ result_writes # << >>) =>
        PulsesFrom(pin_ops, LOW) =
          (CASE result_writes[1].label = "good-serve" -> ListedSteps(0)
             [] result_writes[1].label = "jerky-motion" -> ListedSteps(1)
             [] result_writes[1].label = "lacks-pronation" -> ListedSteps(2)
             [] result_writes[1].label = "short-swing" -> ListedSteps(3)
             [] OTHER -> << >>)
  /\ TotalDelay(pin_ops) <= 2400

\* The pattern of class 2 played: 1050 ms of steps.
C7_LacksPronationPlayed ==
  /\ InLoop
  /\ result_writes # << >>
  /\ result_writes[1].label = "lacks-pronation"
  /\ PulsesFrom(pin_ops, LOW) = ListedSteps(2)
  /\ TotalDelay(pin_ops) = 1050

\* C8: after a call that played a pattern, the startup pattern included, the
\* LED is at the level the stop transition calls off.
C8_LedOffAfterPattern ==
  MotorActuated => led = LED_OFF

\* ------------------------------------------------------------------------
\* Properties of the logger's command characteristic (SpecLogger)
\* ------------------------------------------------------------------------
\* C9: a write of 0x00 stops the capture and changes nothing else; 0x01
\* starts it, stores the session id it read incremented by one (a uint16_t)
\* and resets the sequence counter to 0, each of its accesses changing
\* nothing but the variable it assigns; 0x02 sets the marker and changes
\* neither capture, session nor sequence counter; any other byte and an
\* empty write leave all four unchanged.
C9_CommandEffects ==
  [][/\ \A value \in WriteValues :
          OnWrite(value) =>
            CASE value = << 0 >> ->
                   /\ captureEnabled' = FALSE
                   /\ w_todo' = {}
                   /\ UNCHANGED << serveMarker, sessionId, sampleSerial >>
              [] value = << 1 >> ->
                   /\ {"capture", "session_load", "session_store", "serial"}
                        \subseteq w_todo'
                   /\ UNCHANGED << captureEnabled, serveMarker, sessionId,
                                   sampleSerial >>
              [] value = << 2 >> ->
                   /\ serveMarker' = TRUE
                   /\ w_todo' = {}
                   /\ UNCHANGED << captureEnabled, sessionId, sampleSerial >>
              [] OTHER ->
                   /\ w_todo' = {}
                   /\ UNCHANGED << captureEnabled, serveMarker, sessionId,
                                   sampleSerial >>
     /\ (w_todo # {} /\ w_todo' # w_todo) =>
          LET made == w_todo \ w_todo'
          IN /\ Cardinality(made) = 1
             /\ w_todo' \subseteq w_todo
             /\ captureEnabled' = (IF "capture" \in made THEN TRUE
                                   ELSE captureEnabled)
             /\ "session_load" \in made => w_reg' = sessionId
             /\ sessionId' = (IF "session_store" \in made
                              THEN (w_reg + 1) % 65536 ELSE sessionId)
             /\ sampleSerial' = (IF "serial" \in made THEN 0 ELSE sampleSerial)
    ]_vars

\* A session that only a write of 0x01 can have started: the switch was OFF
\* when setup() read it (the LED is still LOW) and was never seen ON by
\* loop(), and the button handler never ran through.
C9_RemoteStartActed ==
  /\ captureEnabled
  /\ serveMarker
  /\ sessionId = 1
  /\ sampleSerial = 0
  /\ ~lastSwitchState
  /\ btn_last = 0
  /\ status_led = LOW
  /\ w_todo = {}
  /\ l_pc = "top"

\* ------------------------------------------------------------------------
\* Properties of the logger's packets (SpecLong)
\* ------------------------------------------------------------------------
\* C10: the K-th sample accepted in a session is emitted with sequence K - 1
\* and the session's id, for every K.
C10_SequenceCountsAccepted ==
  l_pc = "send" => (pkt.sequence = accepted - 1 /\ pkt.session = sessionId)

\* ------------------------------------------------------------------------
\* Properties of the logger's sessions (SpecLong)
\* ------------------------------------------------------------------------
\* C11: booting with the switch ON starts exactly one session before the
\* first packet: every packet of the recording that begins at boot, the
\* switch staying ON and nothing else starting a recording, carries the
\* first session id, 1.
C11_BootStartsOneSession ==
  l_pc = "send" => pkt.session = 1

\* ------------------------------------------------------------------------
\* Properties of the logger's marker and gating (SpecLogger)
\* ------------------------------------------------------------------------
\* C12: no marker request is lost: a pending marker is cleared only by the
\* building of a packet that carries it in flag bit1.
C12_MarkerClearedIntoFlaggedPacket ==
  [][(serveMarker /\ ~serveMarker') => pkt'.flags = 3]_vars

\* C13: a packet is built only when a receiver is attached to take it: the
\* step of loop() that ends the building of a packet hands it to notify().
C13_BuiltPacketIsHandedOver ==
  [][(l_pc = "send" /\ l_pc' = "top") => notified' = << pkt >>]_vars

\* ------------------------------------------------------------------------
\* Properties of the logger's button (SpecLogger)
\* ------------------------------------------------------------------------
\* C14: the first button edge after boot is accepted whenever it comes:
\* while the interrupt is attached and no edge has been accepted yet
\* (the debounce timestamp still has its boot value), an edge arriving now
\* is not dropped.
C14_FirstEdgeAcceptedAnyTime ==
  (l_pc # "boot" /\ btn_last = 0) => ~Debounced(millis, btn_last)

\* ------------------------------------------------------------------------
\* Properties of the state notifications
\* ------------------------------------------------------------------------
\* C15: every change of the logger's recording state is followed by exactly
\* one state notification carrying the new state, 1 for recording and 0 for
\* idle.
C15_LoggerNotifiesStateChange ==
  [][captureEnabled' # captureEnabled =>
       LoggerStateWrites = << IF captureEnabled' THEN 1 ELSE 0 >>]_vars

\* ------------------------------------------------------------------------
\* Properties of the error paths
\* ------------------------------------------------------------------------
\* C16: a call of loop() whose classification fails in Invoke writes no
\* result message and drives no pattern, leaves the sample count and the
\* window as they were and the recording state idle as the stop made it,
\* and loop() goes on: when it next reads the switch ON it starts a new
\* recording.
C16_FailedInvokeChangesNothing ==
  [][/\ (invoked' # << >> /\ invoke_out' = << >>) =>
          /\ result_writes' = << >>
          /\ PulsesFrom(pin_ops', LOW) = << >>
          /\ \A k \in 1..Len(pin_ops') : pin_ops'[k].pin # "motor"
          /\ sample_count' = sample_count
          /\ imu_buffer' = imu_buffer
          /\ ~is_recording'
          /\ c_pc' = "run"
     /\ (invoked # << >> /\ invoke_out = << >> /\ last_switch_state') =>
          /\ is_recording'
          /\ switch_writes' = << 1 >>
          /\ sample_count' \in {0, 1}
    ]_vars

\* A classification failed in Invoke, and the run may still start another
\* recording.
C16_InvokeFailed ==
  /\ InLoop
  /\ invoked # << >>
  /\ invoke_out = << >>
  /\ result_writes = << >>
  /\ ~is_recording
  /\ sample_count > 0
  /\ starts < MaxStarts

\* C17: after a failed sensor initialisation the logger is halted: loop()
\* is never entered, the recording state never becomes active and no packet
\* is sent.
C17_LoggerHaltsOnSensorInitFailure ==
  /\ l_pc \in {"boot", "usb_wait", "icm_wait", "advertising"}
  /\ ~captureEnabled
  /\ notified = << >>

\* C18: a failed sensor read abandons that sample only.  In the classifier
\* an iteration that attempted a read and stored nothing leaves the window
\* and its count as they were (the count of a recording it has just started
\* being 0) and the recording going on, and the next iteration with the
\* switch still ON reads again.  In the logger a call of loop() that returns
\* from the read without building a packet leaves the sequence counter, the
\* session id, the marker and the capture flag unchanged and sends nothing;
\* line 289 has stored the time of that call as the time of the last sample,
\* so a call of loop() reads when, and only when, a sample period has passed
\* since the failed read, and every call before that waits 1 ms in delay(1).
C18_FailedReadRetriedWhenDue ==
  [][/\ (c_pc = "run" /\ loop_delays' = << 25, 5 >> /\ ~sampled') =>
          /\ imu_buffer' = imu_buffer
          /\ sample_count' = (IF switch_writes' = << 1 >> THEN 0 ELSE sample_count)
          /\ is_recording'
     /\ (c_pc = "run" /\ loop_delays = << 25, 5 >> /\ ~sampled /\ last_switch_state') =>
          loop_delays' = << 25, 5 >>
     /\ (l_pc = "read" /\ l_pc' = "top") =>
          /\ UNCHANGED << sampleSerial, sessionId, serveMarker, captureEnabled >>
          /\ notified' = << >>
          /\ lastSampleMs' = millis'
     /\ (l_pc = "top" /\ l_pc' \in {"read", "delay"}) =>
          (l_pc' = "read" <=> ~(millis - lastSampleMs < SAMPLE_PERIOD_MS))
     /\ (l_pc \in {"on_flush", "off_flush"} /\ l_pc' # l_pc) =>
          /\ l_pc' \in {"read", "delay"}
          /\ l_pc' = "read" <=> ~(now - lastSampleMs < SAMPLE_PERIOD_MS)
     /\ (l_pc = "delay" /\ l_pc' # "delay") =>
          /\ l_pc' = "top"
          /\ millis' = millis + 1
          /\ lastSampleMs' = lastSampleMs
    ]_vars

\* The logger reads again one sample period after a failed read: capture has
\* been on since the boot or the first switch check, no sample has been
\* accepted, the start's marker is still pending and the sequence counter
\* still 0, and loop() is at the read of a later sample period.
C18_LoggerReadRetried ==
  /\ l_pc = "read"
  /\ captureEnabled
  /\ serveMarker
  /\ sampleSerial = 0
  /\ accepted = 0
  /\ lastSwitchState
  /\ lastSampleMs = millis
  /\ millis >= LoggerHorizon - 1

\* C18 as stated: a single failed sensor read changes no state (classifier:
\* window, count and recording; logger: sequence counter, session id, marker
\* and capture flag, and no packet sent), and the next loop iteration samples
\* again: in the classifier the next iteration with the switch still ON
\* reads, and in the logger a sample is due at the call of loop() that
\* follows the one whose read failed (capture on and no packet built).
C18_NextIterationSamplesAgain ==
  [][/\ (c_pc = "run" /\ loop_delays' = << 25, 5 >> /\ ~sampled') =>
          /\ imu_buffer' = imu_buffer
          /\ sample_count' = (IF switch_writes' = << 1 >> THEN 0 ELSE sample_count)
          /\ is_recording'
     /\ (c_pc = "run" /\ loop_delays = << 25, 5 >> /\ ~sampled /\ last_switch_state') =>
          loop_delays' = << 25, 5 >>
     /\ (l_pc = "read" /\ l_pc' = "top") =>
          /\ UNCHANGED << sampleSerial, sessionId, serveMarker, captureEnabled >>
          /\ notified' = << >>
     /\ (l_pc = "read" /\ captureEnabled /\ l_pc' = "top") =>
          ~(millis' - lastSampleMs' < SAMPLE_PERIOD_MS)
    ]_vars

\* ------------------------------------------------------------------------
\* Properties of the classifier's capture rate (SpecRate)
\* ------------------------------------------------------------------------
\* C19: with every read succeeding, a recording stopped after the switch was
\* held ON for T ms holds min(160, T / 25) samples.
C19_OneSamplePer25Ms ==
  (c_pc = "run" /\ switch_writes = << 0 >>) =>
     sample_count = Min(kSequenceLength, hold_ms \div 25)

\* ------------------------------------------------------------------------
\* Properties of the quantization (SpecQuant)
\* ------------------------------------------------------------------------
\* The integer nearest to value / scale, a half going away from zero.
NearestAwayFromZero(value, scale) ==
  LET a == IF value < 0 THEN -value ELSE value
      n == CHOOSE k \in ((a \div scale) - 1)..((a \div scale) + 1) :
             /\ k >= 0
             /\ 2 * k * scale - scale <= 2 * a
             /\ 2 * a < 2 * k * scale + scale
  IN IF value < 0 THEN -n ELSE n

\* Whether a * 2^shift / scale is 256 or more, for a >= 0: the quotient is
\* then past either clamp whatever the zero point.
RECURSIVE PastClamps(_, _, _)
PastClamps(a, shift, scale) ==
  IF a \div scale >= 256 THEN TRUE
  ELSE IF shift = 0 THEN FALSE
  ELSE PastClamps(2 * a, shift - 1, scale)

\* C20: for every value, the quantized value is the round-half-away-from-
\* zero of the quotient value / scale plus the zero point, clamped to
\* -128..127, hence always within -128..127; and when the unclamped value is
\* within -128..127, dequantizing it gives the value back to within one
\* scale unit.
C20_QuantizeInRangeAndInvertible ==
  q_out # << >> =>
    LET q == q_out[1]
        past == PastClamps(Abs(q_in.value), q_in.shift, q_in.input_scale)
        v == q_in.value * Pow2(q_in.shift)
        unclamped == NearestAwayFromZero(v, q_in.input_scale) + q_in.input_zp
        back == (q - q_in.input_zp) * q_in.input_scale
    IN /\ q \in (-128)..127
       /\ q = (IF past THEN (IF q_in.value < 0 THEN -128 ELSE 127)
               ELSE IF unclamped < -128 THEN -128
               ELSE IF unclamped > 127 THEN 127 ELSE unclamped)
       /\ (~past /\ unclamped \in (-128)..127) =>
            /\ back - v <= q_in.input_scale
            /\ v - back <= q_in.input_scale

\* ------------------------------------------------------------------------
\* Properties of the logger's packets under interleaving (SpecLogger)
\* ------------------------------------------------------------------------
\* Packets built so far that carry session id s.
PacketsBuilt(s) == IF s \in DOMAIN built THEN built[s] ELSE 0

\* C21: whatever the button interrupt and the command callback do while
\* loop() builds a packet, the finished packet's sequence is the number of
\* packets already built with the session id it carries: no two packets of
\* a session share a sequence, and no packet pairs one session's id with
\* another session's sequence.
C21_SequenceCountsPacketsOfSession ==
  l_pc = "send" => pkt.sequence = PacketsBuilt(pkt.session)

\* ------------------------------------------------------------------------
\* Properties of the classifier's recording state (Spec)
\* ------------------------------------------------------------------------
\* C22: every call of loop() ends with the recording flag equal to the
\* switch level it read (is_recording = last_switch_state); a call that
\* sees the switch go from ON to OFF finds a recording going on and stops
\* it; and the first call after setup(), reading the switch ON, starts a
\* recording.
C22_RecordingFollowsSwitch ==
  [][c_pc = "run" =>
       /\ is_recording' = last_switch_state'
       /\ (last_switch_state /\ ~last_switch_state') =>
            (is_recording /\ ~is_recording' /\ switch_writes' = << 0 >>)
       /\ (loop_delays = << >> /\ last_switch_state') =>
            (is_recording' /\ sample_count' <= 1 /\ switch_writes' = << 1 >>)]_vars

\* The second recording of a run was stopped by the OFF edge loop() saw.
C22_SecondRecordingStopped ==
  /\ c_pc = "run"
  /\ starts = MaxStarts
  /\ switch_writes = << 0 >>
  /\ ~is_recording
  /\ ~last_switch_state

\* ------------------------------------------------------------------------
\* Properties of the logger's session boundary (SpecLogger)
\* ------------------------------------------------------------------------
\* C23: the first packet built after a start of recording (the packet of
\* the first sample accepted since the start) has sequence 0, the id of the
\* session started and the marker bit set; a later packet of the session
\* has the marker bit set only when a marker request is pending.
C23_FirstPacketMarksSession ==
  /\ []((l_pc = "send" /\ accepted = 1) =>
          (pkt.sequence = 0 /\ pkt.session = sessionId /\ pkt.flags = 3))
  /\ [][("flags" \in l_todo /\ "flags" \notin l_todo' /\ accepted > 1
          /\ pkt'.flags = 3) =>
          serveMarker]_vars

====
